---- MODULE Spec2Model ----
(***************************************************************************)
(* PcgRng (src/src/pcg.rs): the pcg32 XSH-RR generator, its seeding and    *)
(* stream selection.                                                       *)
(*                                                                         *)
(* A u64 is a tuple of 8 bytes and a u32 a tuple of 4 bytes, least         *)
(* significant byte first, so that every operation keeps the width the     *)
(* Rust type gives it.  Hex64 and Hex32 build a value from its bytes       *)
(* written most significant first; Decimal64 builds one from the decimal   *)
(* digits of a literal.                                                    *)
(***************************************************************************)
EXTENDS Integers, Sequences, FiniteSets, TLC

VARIABLES
    rng,       \* the generator: its fields state and inc
    outs,      \* the values next_u32 returned since rng was constructed or reseeded
    origin,    \* the last constructor, reseed or set_stream applied to rng
    last,      \* the last operation on rng: its argument, what it returned
    panicked,  \* whether an operation met a shift count out of range
    pair,      \* two generators, for the claims that compare generators
    orbit      \* the low bits of a generator's state under repeated next_u32

vars == <<rng, outs, origin, last, panicked, pair, orbit>>

----------------------------------------------------------------------------
(* Fixed-width unsigned integers.                                          *)

Byte == 0 .. 255

U64 == [1 .. 8 -> Byte]

U32 == [1 .. 4 -> Byte]

\* The bytes f[1] .. f[n] as a value of n bytes (4 or 8).
Bytes(f, n) ==
    IF n = 4 THEN <<f[1], f[2], f[3], f[4]>>
    ELSE <<f[1], f[2], f[3], f[4], f[5], f[6], f[7], f[8]>>

Reverse(s) == Bytes([i \in 1 .. Len(s) |-> s[Len(s) + 1 - i]], Len(s))

Hex64(bytes) == Reverse(bytes)

Hex32(bytes) == Reverse(bytes)

Zero64 == <<0, 0, 0, 0, 0, 0, 0, 0>>

One64 == <<1, 0, 0, 0, 0, 0, 0, 0>>

AllOnes64 == <<255, 255, 255, 255, 255, 255, 255, 255>>

\* The byte of a at position i, zero outside the value.
Limb(a, i) == IF i >= 1 /\ i <= Len(a) THEN a[i] ELSE 0

RECURSIVE AddFrom(_, _, _, _)
AddFrom(a, b, i, carry) ==
    IF i > Len(a) THEN <<>>
    ELSE <<(a[i] + b[i] + carry) % 256>>
         \o AddFrom(a, b, i + 1, (a[i] + b[i] + carry) \div 256)

\* u64::wrapping_add: the sum modulo 2^(8 * Len(a)).
WrappingAdd(a, b) == AddFrom(a, b, 1, 0)

RECURSIVE SubFrom(_, _, _, _)
SubFrom(a, b, i, borrow) ==
    IF i > Len(a) THEN <<>>
    ELSE <<(a[i] - b[i] - borrow) % 256>>
         \o SubFrom(a, b, i + 1, IF a[i] - b[i] - borrow < 0 THEN 1 ELSE 0)

\* u64::wrapping_sub: the difference modulo 2^(8 * Len(a)).
WrappingSub(a, b) == SubFrom(a, b, 1, 0)

RECURSIVE ColumnSum(_, _, _, _)
\* The sum of the byte products a[i] * b[j] with i + j = k + 1, from i up.
ColumnSum(a, b, k, i) ==
    IF i > k THEN 0 ELSE a[i] * b[k + 1 - i] + ColumnSum(a, b, k, i + 1)

RECURSIVE MulFrom(_, _, _, _)
MulFrom(a, b, k, carry) ==
    IF k > Len(a) THEN <<>>
    ELSE <<(ColumnSum(a, b, k, 1) + carry) % 256>>
         \o MulFrom(a, b, k + 1, (ColumnSum(a, b, k, 1) + carry) \div 256)

\* u64::wrapping_mul: the product modulo 2^(8 * Len(a)).
WrappingMul(a, b) == MulFrom(a, b, 1, 0)

\* a >> n for 0 <= n < 8 * Len(a) (logical shift of an unsigned value).
Shr(a, n) ==
    LET q == n \div 8
        r == n % 8
    IN  Bytes([i \in 1 .. Len(a) |->
                  (Limb(a, i + q) \div (2 ^ r))
                + (Limb(a, i + q + 1) % (2 ^ r)) * (2 ^ (8 - r))], Len(a))

\* a << n for 0 <= n < 8 * Len(a): the bits shifted out are dropped.
Shl(a, n) ==
    LET q == n \div 8
        r == n % 8
    IN  Bytes([i \in 1 .. Len(a) |->
                  ((Limb(a, i - q) * (2 ^ r)) % 256)
                + (Limb(a, i - q - 1) \div (2 ^ (8 - r)))], Len(a))

\* Bitwise operations on 4-bit digits, tabulated.
XorNibble ==
    [x \in 0 .. 15 |-> [y \in 0 .. 15 |->
        ((x + y) % 2)
      + 2 * (((x \div 2) + (y \div 2)) % 2)
      + 4 * (((x \div 4) + (y \div 4)) % 2)
      + 8 * (((x \div 8) + (y \div 8)) % 2)]]

AndNibble ==
    [x \in 0 .. 15 |-> [y \in 0 .. 15 |->
        ((x % 2) * (y % 2))
      + 2 * (((x \div 2) % 2) * ((y \div 2) % 2))
      + 4 * (((x \div 4) % 2) * ((y \div 4) % 2))
      + 8 * ((x \div 8) * (y \div 8))]]

XorByte(x, y) == XorNibble[x % 16][y % 16] + 16 * XorNibble[x \div 16][y \div 16]

AndByte(x, y) == AndNibble[x % 16][y % 16] + 16 * AndNibble[x \div 16][y \div 16]

OrByte(x, y) == x + y - AndByte(x, y)

BitXor(a, b) == Bytes([i \in 1 .. Len(a) |-> XorByte(a[i], b[i])], Len(a))

BitOr(a, b) == Bytes([i \in 1 .. Len(a) |-> OrByte(a[i], b[i])], Len(a))

BitAnd(a, b) == Bytes([i \in 1 .. Len(a) |-> AndByte(a[i], b[i])], Len(a))

\* `as u32` of a u64: the low 32 bits.
AsU32(a) == <<a[1], a[2], a[3], a[4]>>

\* A shift count as a number: the value itself when it fits a byte, and a
\* number past every width otherwise.
Amount(a) == IF \A i \in 2 .. Len(a) : a[i] = 0 THEN a[1] ELSE 256

Ten64 == <<10, 0, 0, 0, 0, 0, 0, 0>>

RECURSIVE DecimalFrom(_, _, _)
DecimalFrom(digits, i, acc) ==
    IF i > Len(digits) THEN acc
    ELSE DecimalFrom(digits, i + 1,
             WrappingAdd(WrappingMul(acc, Ten64),
                         <<digits[i], 0, 0, 0, 0, 0, 0, 0>>))

\* The u64 a decimal literal denotes.
Decimal64(digits) == DecimalFrom(digits, 1, Zero64)

----------------------------------------------------------------------------
(* The generator.                                                          *)

\* The multiplier of the advance, 6364136223846793005.
MULTIPLIER ==
    Decimal64(<<6, 3, 6, 4, 1, 3, 6, 2, 2, 3, 8, 4, 6, 7, 9, 3, 0, 0, 5>>)

ThirtyOne == <<31, 0, 0, 0, 0, 0, 0, 0>>

PcgRng(state, inc) == [state |-> state, inc |-> inc]

new_unseeded ==
    PcgRng(Hex64(<<\H85, \H3c, \H49, \He6, \H74, \H8f, \Hea, \H9b>>),
           Hex64(<<\Hda, \H3e, \H39, \Hcb, \H94, \Hb9, \H5b, \Hdb>>))

\* Faulty variant of Advance: the increment is added before the multiply.
AdvanceAddFirst(old, inc) == WrappingMul(WrappingAdd(old, inc), MULTIPLIER)

\* Faulty variant of Advance: the increment is one shared by every
\* generator (that of generator "a") instead of the generator's own.
AdvanceShared(old, inc) ==
    WrappingAdd(WrappingMul(old, MULTIPLIER), pair["a"].gen.inc)

\* self.state after the advance of next_u32:
\* old.wrapping_mul(6364136223846793005).wrapping_add(self.inc)
Advance(old, inc) == WrappingAdd(WrappingMul(old, MULTIPLIER), inc)

\* Faulty variant of Xorshifted: the two shift distances exchanged.
XorshiftedSwapped(old) == AsU32(Shr(BitXor(Shr(old, 27), old), 18))

\* let xor = (((old >> 18) ^ old) >> 27) as u32
Xorshifted(old) == AsU32(Shr(BitXor(Shr(old, 18), old), 27))

\* let rot = old >> 59 as u32: a u64, the cast binds to the literal 59.
Rot(old) == Shr(old, 59)

\* Faulty variant of LeftAmount: 32 - rot, which is 32 when rot is 0.
LeftAmountUnmasked(rot) == WrappingSub(<<32, 0, 0, 0, 0, 0, 0, 0>>, rot)

\* ((0 as u64).wrapping_sub(rot)) & 31
LeftAmount(rot) == BitAnd(WrappingSub(Zero64, rot), ThirtyOne)

\* Faulty variant of Permute: a rotation to the left.
PermuteLeft(xor, rot, lsh) ==
    BitOr(Shl(xor, Amount(rot) % 32), Shr(xor, Amount(lsh) % 32))

\* (xor >> rot) | (xor << lsh) on the u32 xor.  A shift count of 32 or more
\* panics in a build with overflow checks and is taken modulo 32 in one
\* without; next_u32 reports which of the two cases it met.
Permute(xor, rot, lsh) ==
    BitOr(Shr(xor, Amount(rot) % 32), Shl(xor, Amount(lsh) % 32))

\* next_u32 on generator g: the generator after the call, the value
\* returned, the two shift counts used, and whether both were in range.
next_u32(g) ==
    LET old == g.state
        xor == Xorshifted(old)
        rot == Rot(old)
        lsh == LeftAmount(rot)
    IN  [gen    |-> PcgRng(Advance(old, g.inc), g.inc),
         out    |-> Permute(xor, rot, lsh),
         shifts |-> <<Amount(rot), Amount(lsh)>>,
         ok     |-> Amount(rot) < 32 /\ Amount(lsh) < 32]

\* seed[0] and seed[1] of a [u64; 2].
Seed0(seed) == seed[1]

Seed1(seed) == seed[2]

\* (seed[1] << 1) | 1
SeedInc(seed) == BitOr(Shl(Seed1(seed), 1), One64)

\* The two next_u32 calls of reseed and the addition between them, from
\* the generator g0 that its first two assignments leave.
Mix(g0, seed) ==
    LET r1 == next_u32(g0)
        g1 == PcgRng(WrappingAdd(r1.gen.state, Seed0(seed)), r1.gen.inc)
        r2 == next_u32(g1)
    IN  [gen |-> r2.gen, ok |-> r1.ok /\ r2.ok]

\* Faulty variant of reseed: self.state is not set to 0 first.
reseedKeepsState(g, seed) == Mix(PcgRng(g.state, SeedInc(seed)), seed)

\* Faulty variant of reseed: seed[0] is never added.
reseedIgnoresSeed0(g, seed) ==
    LET r1 == next_u32(PcgRng(Zero64, SeedInc(seed)))
        r2 == next_u32(r1.gen)
    IN  [gen |-> r2.gen, ok |-> r1.ok /\ r2.ok]

\* reseed on generator g: the generator after it, and whether every shift
\* count of its two next_u32 calls was in range.
reseed(g, seed) == Mix(PcgRng(Zero64, SeedInc(seed)), seed)

from_seed(seed) == reseed(new_unseeded, seed)

\* Faulty variant of set_stream: the id is made odd, as reseed does.
set_stream_odd(g, id) == PcgRng(g.state, BitOr(Shl(id, 1), One64))

set_stream(g, id) == PcgRng(g.state, id)

with_stream(g, id) == PcgRng(g.state, id)

\* PcgRng::rand, with the two words rng.next_u64() returns.
rand(w1, w2) == PcgRng(w1, w2)

\* #[derive(Clone)]
Clone(g) == PcgRng(g.state, g.inc)

----------------------------------------------------------------------------
(* Inputs.                                                                 *)

Small64(n) == <<n, 0, 0, 0, 0, 0, 0, 0>>

TopBit64 == <<0, 0, 0, 0, 0, 0, 0, 128>>

\* The seed of the test `output` and that of the test `overflow`.
Seed4254 == <<Small64(42), Small64(54)>>

SeedAllOnes == <<AllOnes64, Small64(54)>>

\* A seed whose second word has its top bit set.
SeedTopBit == <<Small64(42), BitOr(Small64(54), TopBit64)>>

Seeds == {Seed4254, SeedAllOnes, SeedTopBit}

\* Stream ids: an odd one and an even one.
OddStream == Hex64(<<\H14, \H05, \H7b, \H7e, \Hf7, \H67, \H81, \H4f>>)

EvenStream == Hex64(<<\H80, \H00, \H00, \H00, \H00, \H00, \H00, \H36>>)

StreamIds == {OddStream, EvenStream}

\* States an external source may hand to rand: the largest u64, and one
\* whose top five bits are zero.
LowTopState == Hex64(<<\H01, \H23, \H45, \H67, \H89, \Hab, \Hcd, \Hef>>)

ExternalStates == {AllOnes64, LowTopState}

MaxCalls == 6

MaxPairCalls == 3

PeriodBits == 6

----------------------------------------------------------------------------
(* One generator through its life: constructed, then drawn from, reseeded  *)
(* and moved between streams.                                              *)

Op(op, arg, ret, shifts) ==
    [op |-> op, arg |-> arg, ret |-> ret, shifts |-> shifts]

Origin(op, arg) == [op |-> op, arg |-> arg]

\* What a constructor returns: new_unseeded, from_seed or rand.
Constructions ==
    {[gen |-> new_unseeded, op |-> "new_unseeded", arg |-> <<>>, ok |-> TRUE]}
    \cup {[gen |-> from_seed(s).gen, op |-> "from_seed", arg |-> s,
           ok |-> from_seed(s).ok] : s \in Seeds}
    \cup {[gen |-> rand(w1, w2), op |-> "rand", arg |-> <<w1, w2>>,
           ok |-> TRUE] : w1 \in ExternalStates, w2 \in StreamIds}

IdleSingle ==
    /\ rng = new_unseeded
    /\ outs = <<>>
    /\ origin = Origin("new_unseeded", <<>>)
    /\ last = Op("new_unseeded", <<>>, new_unseeded, <<>>)
    /\ panicked = FALSE

IdlePair == pair = <<>>

IdleOrbit == orbit = <<>>

Init ==
    /\ \E c \in Constructions :
          /\ rng = c.gen
          /\ origin = Origin(c.op, c.arg)
          /\ last = Op(c.op, c.arg, c.gen, <<>>)
          /\ panicked = ~c.ok
    /\ outs = <<>>
    /\ IdlePair
    /\ IdleOrbit

NextU32 ==
    /\ Len(outs) < MaxCalls
    /\ \E r \in {next_u32(rng)} :
          /\ rng' = r.gen
          /\ outs' = Append(outs, r.out)
          /\ last' = Op("next_u32", <<>>, r.out, r.shifts)
          /\ panicked' = (panicked \/ ~r.ok)
    /\ UNCHANGED <<origin, pair, orbit>>

Reseed(seed) ==
    /\ \E r \in {reseed(rng, seed)} :
          /\ rng' = r.gen
          /\ last' = Op("reseed", seed, <<>>, <<>>)
          /\ panicked' = (panicked \/ ~r.ok)
    /\ outs' = <<>>
    /\ origin' = Origin("reseed", seed)
    /\ UNCHANGED <<pair, orbit>>

SetStream(id) ==
    /\ rng' = set_stream(rng, id)
    /\ origin' = Origin("set_stream", id)
    /\ last' = Op("set_stream", id, <<>>, <<>>)
    /\ UNCHANGED <<outs, panicked, pair, orbit>>

WithStream(id) ==
    /\ last' = Op("with_stream", id, with_stream(rng, id), <<>>)
    /\ UNCHANGED <<rng, outs, origin, panicked, pair, orbit>>

Next ==
    \/ NextU32
    \/ \E seed \in Seeds : Reseed(seed)
    \/ \E id \in StreamIds : SetStream(id)
    \/ \E id \in StreamIds : WithStream(id)

Spec == Init /\ [][Next]_vars

----------------------------------------------------------------------------
(* Two generators "a" and "b", each constructed, cloned from the other and *)
(* drawn from on its own.  A generator carries the fields it had when it   *)
(* was made and after each call since (trace), and the values returned.    *)

Gens == {"a", "b"}

Other(g) == IF g = "a" THEN "b" ELSE "a"

\* Seeds one bit apart from Seed4254: bit 0 of either word, and the top bit
\* of the second.
Seed4354 == <<Small64(43), Small64(54)>>

Seed4255 == <<Small64(42), Small64(55)>>

PairSeeds == {Seed4254, Seed4354, Seed4255, SeedTopBit}

Made(gen, op, seed) ==
    [gen |-> gen, trace |-> <<gen>>, outs |-> <<>>, op |-> op, seed |-> seed]

PairInit ==
    /\ pair = [g \in Gens |-> Made(new_unseeded, "new_unseeded", <<>>)]
    /\ IdleSingle
    /\ IdleOrbit

PairNewUnseeded(g) ==
    /\ pair' = [pair EXCEPT ![g] = Made(new_unseeded, "new_unseeded", <<>>)]
    /\ UNCHANGED <<rng, outs, origin, last, panicked, orbit>>

PairFromSeed(g, seed) ==
    /\ pair' = [pair EXCEPT ![g] = Made(from_seed(seed).gen, "from_seed", seed)]
    /\ UNCHANGED <<rng, outs, origin, last, panicked, orbit>>

\* pair[g] becomes a clone of the other generator, whose history it shares.
PairClone(g) ==
    /\ pair' = [pair EXCEPT ![g] =
                   [pair[Other(g)] EXCEPT !.gen = Clone(pair[Other(g)].gen),
                                          !.op = "clone"]]
    /\ UNCHANGED <<rng, outs, origin, last, panicked, orbit>>

PairNextU32(g) ==
    /\ Len(pair[g].outs) < MaxPairCalls
    /\ \E r \in {next_u32(pair[g].gen)} :
          pair' = [pair EXCEPT ![g].gen = r.gen,
                               ![g].trace = Append(@, r.gen),
                               ![g].outs = Append(@, r.out)]
    /\ UNCHANGED <<rng, outs, origin, last, panicked, orbit>>

PairNext ==
    \/ \E g \in Gens : PairNewUnseeded(g)
    \/ \E g \in Gens : \E seed \in PairSeeds : PairFromSeed(g, seed)
    \/ \E g \in Gens : PairClone(g)
    \/ \E g \in Gens : PairNextU32(g)

SpecPair == PairInit /\ [][PairNext]_vars

----------------------------------------------------------------------------
(* The low PeriodBits bits of the state under repeated next_u32.  The low  *)
(* w bits of a product and of a sum depend on the low w bits of the        *)
(* operands only, so they advance by the same multiplier and increment     *)
(* reduced modulo 2^w.                                                     *)

PeriodModulus == 2 ^ PeriodBits

\* The low PeriodBits bits of a u64 (PeriodBits is at most 15).
Low(a) == (a[1] + 256 * a[2]) % PeriodModulus

\* Faulty variant of LowAdvance: the increment is never added.
LowAdvanceNoInc(old, inc) == (old * Low(MULTIPLIER)) % PeriodModulus

\* Advance on the low bits.
LowAdvance(old, inc) == (old * Low(MULTIPLIER) + inc) % PeriodModulus

OrbitStarts == {0, PeriodModulus - 1, Low(new_unseeded.state)}

OddIncrements == {c \in 0 .. PeriodModulus - 1 : c % 2 = 1}

OrbitInit ==
    /\ \E s \in OrbitStarts : \E c \in OddIncrements :
          orbit = [start |-> s, state |-> s, inc |-> c, calls |-> 0, seen |-> {}]
    /\ IdleSingle
    /\ IdlePair

\* next_u32, as far as the low bits of the state show it.
OrbitNextU32 ==
    /\ orbit.calls < PeriodModulus
    /\ orbit' = [orbit EXCEPT !.state = LowAdvance(orbit.state, orbit.inc),
                              !.calls = @ + 1,
                              !.seen = @ \cup {LowAdvance(orbit.state, orbit.inc)}]
    /\ UNCHANGED <<rng, outs, origin, last, panicked, pair>>

OrbitNext == OrbitNextU32

SpecPeriod == OrbitInit /\ [][OrbitNext]_vars

----------------------------------------------------------------------------
(* Properties.                                                             *)

\* Bit i of a value, bit 0 the least significant.
Bit(a, i) == (a[(i \div 8) + 1] \div (2 ^ (i % 8))) % 2

RECURSIVE OnesFrom(_, _)
OnesFrom(a, i) == IF i >= 8 * Len(a) THEN 0 ELSE Bit(a, i) + OnesFrom(a, i + 1)

\* In how many bit positions two seeds differ.
BitsApart(s, t) ==
    OnesFrom(BitXor(Seed0(s), Seed0(t)), 0) + OnesFrom(BitXor(Seed1(s), Seed1(t)), 0)

\* The pcg32 reference outputs the test `output` expects.
ExpectedOutputs ==
    <<Hex32(<<\Ha1, \H5c, \H02, \Hb7>>), Hex32(<<\H7b, \H47, \Hf4, \H09>>),
      Hex32(<<\Hba, \H1d, \H33, \H30>>), Hex32(<<\H83, \Hd2, \Hf2, \H93>>),
      Hex32(<<\Hbf, \Ha4, \H78, \H4b>>), Hex32(<<\Hcb, \Hed, \H60, \H6e>>)>>

\* C1: a generator built by from_seed([42, 54]) and only drawn from since
\* has returned, call by call, the six reference values 0xa15c02b7,
\* 0x7b47f409, 0xba1d3330, 0x83d2f293, 0xbfa4784b, 0xcbed606e.
C1_ReferenceVector ==
    origin = Origin("from_seed", Seed4254) =>
        \A i \in 1 .. Len(outs) :
            i <= Len(ExpectedOutputs) => outs[i] = ExpectedOutputs[i]

C1_SixDrawn ==
    /\ origin = Origin("from_seed", Seed4254)
    /\ last.op = "next_u32"
    /\ Len(outs) >= Len(ExpectedOutputs)

\* The fields the claim gives a generator seeded with seed:
\* increment = ((seed1 << 1) mod 2^64) | 1 and
\* state = ((increment + seed0) * 6364136223846793005 + increment) mod 2^64.
SeededFields(seed) ==
    LET inc == BitOr(Shl(seed[2], 1), One64)
    IN  PcgRng(WrappingAdd(WrappingMul(WrappingAdd(inc, seed[1]), MULTIPLIER), inc),
               inc)

\* C2: right after reseed(seed), whatever the generator was before, and
\* right after from_seed(seed), the fields are those of SeededFields(seed):
\* the increment is odd and is seed1 without its top bit, shifted up by one.
C2_SeededFields ==
    (origin.op \in {"reseed", "from_seed"} /\ outs = <<>>) =>
        /\ rng = SeededFields(origin.arg)
        /\ Bit(rng.inc, 0) = 1
        /\ \A i \in 1 .. 63 : Bit(rng.inc, i) = Bit(origin.arg[2], i - 1)

C2_ReseededAfterUse ==
    /\ origin = Origin("reseed", SeedAllOnes)
    /\ last.op = "reseed"
    /\ outs = <<>>

\* Bit i of the low 32 bits of ((old >> 18) ^ old) >> 27.
XorshiftedBit(old, i) ==
    (Bit(old, i + 27) + (IF i + 45 <= 63 THEN Bit(old, i + 45) ELSE 0)) % 2

\* C3: next_u32 returns xorshifted rotated right by rot = old >> 59, where
\* old is the state before the call; rot and the left shift count
\* (0 - rot) & 31 are both in 0..31, and with rot = 0 the result is
\* xorshifted itself.
C3_OutputPermutation ==
    [][last'.op = "next_u32" =>
          LET old == rng.state
              rot == old[8] \div 8
              out == last'.ret
          IN  /\ last'.shifts[1] = rot
              /\ last'.shifts[1] \in 0 .. 31
              /\ last'.shifts[2] \in 0 .. 31
              /\ last'.shifts[2] = (32 - rot) % 32
              /\ \A i \in 0 .. 31 : Bit(out, i) = XorshiftedBit(old, (i + rot) % 32)
              /\ rot = 0 => \A i \in 0 .. 31 : Bit(out, i) = XorshiftedBit(old, i)
      ]_vars

C3_RotationByZero ==
    /\ last.op = "next_u32"
    /\ last.shifts[1] = 0
    /\ last.ret # <<0, 0, 0, 0>>

\* C4: a next_u32 call on fields (old, inc) leaves
\* state = (old * 6364136223846793005 + inc) mod 2^64 and leaves the
\* increment as it was; the low bits of the new state are those of the same
\* product and sum taken on the low bits.
C4_AdvanceAndFrame ==
    [][last'.op = "next_u32" =>
          /\ rng'.inc = rng.inc
          /\ rng'.state = WrappingAdd(WrappingMul(rng.state, MULTIPLIER), rng.inc)
          /\ Low(rng'.state)
               = (Low(rng.state) * Low(MULTIPLIER) + Low(rng.inc)) % PeriodModulus
      ]_vars

C4_DrawnOnChosenStream ==
    /\ last.op = "next_u32"
    /\ origin.op = "set_stream"
    /\ Len(outs) >= 2

\* C5: set_stream(id) sets the increment to exactly id and leaves the state
\* unchanged; with_stream(id) returns a generator with the state of self
\* and increment exactly id, and leaves self unchanged.
C5_StreamSelection ==
    [][/\ last'.op = "set_stream" =>
              /\ rng'.inc = last'.arg
              /\ rng'.state = rng.state
       /\ last'.op = "with_stream" =>
              /\ last'.ret.state = rng.state
              /\ last'.ret.inc = last'.arg
              /\ rng' = rng
      ]_vars

C5_EvenStreams ==
    /\ last = Op("with_stream", EvenStream, with_stream(rng, EvenStream), <<>>)
    /\ origin = Origin("set_stream", EvenStream)
    /\ Len(outs) >= 1

C7_Total ==
    /\ ~panicked
    /\ rng.state \in U64
    /\ rng.inc \in U64
    /\ \A i \in 1 .. Len(outs) : outs[i] \in U32

C7_AllOnesSeedDrawn ==
    /\ origin = Origin("from_seed", SeedAllOnes)
    /\ last.op = "next_u32"
    /\ Len(outs) >= 1

\* C8: the increment of a generator constructed by new_unseeded or
\* from_seed and then drawn from, reseeded and moved between streams is
\* odd, and so is that of every generator with_stream returns.
C8_IncrementOdd ==
    origin.op # "rand" =>
        /\ Bit(rng.inc, 0) = 1
        /\ last.op = "with_stream" => Bit(last.ret.inc, 0) = 1

\* C9: with an odd increment the low PeriodBits bits of the state first
\* return to their starting value after exactly 2^PeriodBits calls of
\* next_u32, having taken every value once.
C9_FullPeriod ==
    /\ (orbit.calls > 0 /\ orbit.state = orbit.start) => orbit.calls = PeriodModulus
    /\ Cardinality(orbit.seen) = orbit.calls
    /\ orbit.calls = PeriodModulus =>
           /\ orbit.state = orbit.start
           /\ orbit.seen = 0 .. PeriodModulus - 1

C9_CycleClosed ==
    /\ orbit.calls = PeriodModulus
    /\ orbit.state = orbit.start
    /\ orbit.start = Low(new_unseeded.state)

\* C10 as stated: from_seed on two seeds that differ in exactly one bit
\* gives generators whose fields differ.
C10_OneBitApartDiffer ==
    \A g \in Gens : \A h \in Gens :
        (/\ pair[g].op = "from_seed"
         /\ pair[h].op = "from_seed"
         /\ BitsApart(pair[g].seed, pair[h].seed) = 1)
            => pair[g].trace[1] # pair[h].trace[1]

\* C10, amended: from_seed on two seeds that differ in exactly one bit,
\* other than the top bit of the second word, gives generators whose fields
\* differ.
C10_OneBitBelowTopDiffer ==
    \A g \in Gens : \A h \in Gens :
        (/\ pair[g].op = "from_seed"
         /\ pair[h].op = "from_seed"
         /\ BitsApart(pair[g].seed, pair[h].seed) = 1
         /\ BitXor(Seed1(pair[g].seed), Seed1(pair[h].seed)) # TopBit64)
            => pair[g].trace[1] # pair[h].trace[1]

C10_LowBitApart ==
    /\ pair["a"].op = "from_seed"
    /\ pair["b"].op = "from_seed"
    /\ pair["a"].seed = Seed4254
    /\ pair["b"].seed = Seed4354
    /\ pair["a"].trace[1] # pair["b"].trace[1]

====
